---- MODULE Spec2Model ----
(***************************************************************************)
(* A model of radixsort_lib.cpp: the fallback insertion/merge sort, the    *)
(* LSD engine, the out-of-place and the in-place MSD engines, and the two  *)
(* exported entry points radix_sort_stable and radix_sort_inplace.         *)
(*                                                                         *)
(* Elements are the KeyValue records of the header comment: a 32-bit key   *)
(* and an index.  The index of an input element is its (1-based) position  *)
(* in the input, so that stability and the permutation property can be     *)
(* read off the result.  Memory is a record of the caller's two buffers    *)
(* (src, tmp), the on-stack temporary of the in-place engine (stk), a      *)
(* count of element writes per buffer, and a log of the counting passes.   *)
(* A pointer is a buffer name and an offset, as in src+b.                  *)
(***************************************************************************)
EXTENDS Integers, Sequences, FiniteSets, TLC

\* ------------------------------------------------------------------ bounds

\* Number of key values (a prefix of KeyList) the inputs are drawn from.
NumKeys == 4

\* --------------------------------------------------------- program constants

\* std::uint32_t KeyType: sizeof(Traits::get_key(*src))*CHAR_BIT.
KeyBits == 32
\* sizeof(T) of struct KeyValue {uint32_t key; uint32_t index;}.
SizeofT == 8
\* fallback_sort: n<=18 is sorted by insertion.
InsertionMax == 18

Pow2(k) == 2 ^ k
Min(a, b) == IF a < b THEN a ELSE b

\* ------------------------------------------------------------------ memory

\* A 32-bit key is held as its two 16-bit halves <<hi, lo>>, of value
\* hi*65536+lo.
get_key(e) == e.key

\* KeyLt with <= for <.
KeyLe(a, b) == a[1] < b[1] \/ (a[1] = b[1] /\ a[2] <= b[2])

\* a<b on two keys.
KeyLt(a, b) == a[1] < b[1] \/ (a[1] = b[1] /\ a[2] < b[2])

Ptr(b, o) == [buf |-> b, off |-> o]
PAdd(p, k) == [buf |-> p.buf, off |-> p.off + k]
Rd(M, p, i) == M.mem[p.buf][p.off + i + 1]
Wr(M, p, i, v) ==
    [M EXCEPT !.mem[p.buf][p.off + i + 1] = v, !.wr[p.buf] = @ + 1]

\* `!destination' of C++.
LNot(x) == IF x = 0 THEN 1 ELSE 0
\* `destination^1' of C++: the lowest bit flipped.
Xor1(x) == IF x % 2 = 0 THEN x + 1 ELSE x - 1

\* -------------------------------------------------------------------- loops

\* TRUE, after st has been evaluated.
Evaluated(st) == Cardinality(DOMAIN st) >= 0

\* for(i=lo;i<hi;++i) st=Body(st,i): the iterations in order, split in halves
\* so that the evaluation nests to depth log(hi-lo).
RECURSIVE For(_, _, _, _)
For(Body(_, _), st, lo, hi) ==
    IF ~Evaluated(st) \/ lo >= hi THEN st
    ELSE IF hi = lo + 1 THEN Body(st, lo)
    ELSE LET mid == (lo + hi) \div 2
         IN For(Body, For(Body, st, lo, mid), mid, hi)

\* while(Cond(st)) st=Body(st), for a loop that ends within `fuel' iterations:
\* the iterations in order, split in halves like For.
RECURSIVE While(_, _, _, _)
While(Cond(_), Body(_), st, fuel) ==
    IF ~Evaluated(st) \/ fuel <= 0 THEN st
    ELSE IF ~Cond(st) THEN st
    ELSE IF fuel = 1 THEN Body(st)
    ELSE While(Cond, Body, While(Cond, Body, st, fuel \div 2),
               fuel - fuel \div 2)

\* The sequence of n copies of v.
RECURSIVE Fill(_, _)
Fill(v, n) ==
    IF n = 0 THEN << >>
    ELSE IF n = 1 THEN <<v>>
    ELSE LET h == Fill(v, n \div 2)
         IN IF n % 2 = 1 THEN h \o h \o <<v>> ELSE h \o h

\* The elements of a finite set of integers, in increasing order.
RECURSIVE Ascending(_)
Ascending(S) ==
    IF S = {} THEN << >>
    ELSE LET m == CHOOSE x \in S : \A y \in S : x <= y
         IN <<m>> \o Ascending(S \ {m})

\* ----------------------------------------------------------- fallback_sort

\* for(;j>0&&key(t)<key(d[j-1]);--j) d[j]=d[j-1];  d[j]=t;   (j starts at i)
InsertionInner(M, d, t, i) ==
    LET Cond(st) == st.j > 0 /\ KeyLt(get_key(t), get_key(Rd(st.M, d, st.j - 1)))
        Body(st) == [M |-> Wr(st.M, d, st.j, Rd(st.M, d, st.j - 1)),
                     j |-> st.j - 1]
        s == While(Cond, Body, [M |-> M, j |-> i], i)
    IN Wr(s.M, d, s.j, t)

\* for(i=1;i<n;++i) {T t=src[i]; ... d[j]=t;}
InsertionOuter(M, src, d, n) ==
    LET Body(st, i) == InsertionInner(st, d, Rd(st, src, i), i)
    IN For(Body, M, 1, n)

\* size_t i=0,j=0,k=0;
\* while(true)
\* {
\*     if(key(r[j])<key(l[i])) {d[k++]=r[j++]; if(j==b) break;}
\*     else                    {d[k++]=l[i++]; if(i==a) break;}
\* }
\* Every iteration advances i or j, so the loop breaks within a+b iterations.
MergeLoop(M, l, r, d, a, b) ==
    LET Cond(st) == ~st.brk
        Body(st) ==
            IF KeyLt(get_key(Rd(st.M, r, st.j)), get_key(Rd(st.M, l, st.i)))
            THEN [M |-> Wr(st.M, d, st.k, Rd(st.M, r, st.j)),
                  i |-> st.i, j |-> st.j + 1, k |-> st.k + 1,
                  brk |-> (st.j + 1 = b)]
            ELSE [M |-> Wr(st.M, d, st.k, Rd(st.M, l, st.i)),
                  i |-> st.i + 1, j |-> st.j, k |-> st.k + 1,
                  brk |-> (st.i + 1 = a)]
    IN While(Cond, Body, [M |-> M, i |-> 0, j |-> 0, k |-> 0, brk |-> FALSE],
             a + b)

\* while(x<lim) d[k++]=p[x++];
CopyTail(M, p, d, x, k, lim) ==
    LET Body(st, y) == Wr(st, d, k + (y - x), Rd(st, p, y))
    IN For(Body, M, x, lim)

MergeHalves(M, l, r, d, a, b) ==
    LET s == MergeLoop(M, l, r, d, a, b)
    IN IF s.i = a THEN CopyTail(s.M, r, d, s.j, s.k, b)
       ELSE CopyTail(s.M, l, d, s.i, s.k, a)

\* The memory after fallback_sort; the pointer it returns is
\* (destination==0?src:tmp).
RECURSIVE fallback_sort(_, _, _, _, _)
fallback_sort(M, src, tmp, n, destination) ==
    LET d == IF destination = 0 THEN src ELSE tmp
    IN IF ~Evaluated(M) THEN M
       ELSE IF n <= InsertionMax
       THEN LET M0 == IF n > 0 THEN Wr(M, d, 0, Rd(M, src, 0)) ELSE M
            IN InsertionOuter(M0, src, d, n)
       ELSE LET a == n \div 2
                b == n - a
                M1 == fallback_sort(M, src, tmp, a, LNot(destination))
                M2 == fallback_sort(M1, PAdd(src, a), PAdd(tmp, a), b,
                                    LNot(destination))
                l == IF destination = 0 THEN tmp ELSE src
                r == PAdd(l, a)
            IN MergeHalves(M2, l, r, d, a, b)

\* ------------------------------------------------------------ counting pass

\* size_t c[2*SIZE]={0};
Zeros(n) == Fill(0, n)

\* c[j] of the C++ array c (0-based) held in a sequence.
At(c, j) == c[j + 1]
Inc(c, j) == [c EXCEPT ![j + 1] = @ + 1]
Put(c, j, v) == [c EXCEPT ![j + 1] = v]

\* Digit without the shift: size_t(Traits::get_key(x))&MASK.
DigitLow(e, OFFSET, MASK) == get_key(e)[2] % (MASK + 1)

\* size_t(Traits::get_key(x)>>OFFSET)&MASK
Digit(e, OFFSET, MASK) ==
    LET hi == get_key(e)[1]
        lo == get_key(e)[2]
    IN IF OFFSET >= 16 THEN (hi \div Pow2(OFFSET - 16)) % (MASK + 1)
       ELSE ((lo \div Pow2(OFFSET)) + (hi % (MASK + 1)) * Pow2(16 - OFFSET))
            % (MASK + 1)

\* The histogram loop, unrolled x2 into the even and odd counters.
HistLoop(c, M, src, m, OFFSET, MASK) ==
    LET Body(st, i) ==
            LET k0 == Digit(Rd(M, src, 2 * i), OFFSET, MASK)
                k1 == Digit(Rd(M, src, 2 * i + 1), OFFSET, MASK)
            IN Inc(Inc(st, 2 * k0), 2 * k1 + 1)
    IN For(Body, c, 0, m)

\* for(j=0,s=0;j<SIZE;++j) {t=s; s+=c[2*j]+c[2*j+1]; c[j]=t;}
PrefixLoop(c, SIZE) ==
    LET Body(st, j) ==
            [c |-> Put(st.c, j, st.s),
             s |-> st.s + At(st.c, 2 * j) + At(st.c, 2 * j + 1)]
    IN For(Body, [c |-> c, s |-> 0], 0, SIZE).c

\* The counters after the histogram and its exclusive prefix sum:
\* c[0..SIZE-1] are the bucket starts.
CumulativeDistribution(M, src, n, OFFSET, SIZE) ==
    LET c0 == HistLoop(Zeros(2 * SIZE), M, src, n \div 2, OFFSET, SIZE - 1)
        c1 == IF n % 2 = 1
              THEN Inc(c0, 2 * Digit(Rd(M, src, n - 1), OFFSET, SIZE - 1))
              ELSE c0
    IN PrefixLoop(c1, SIZE)

\* for(j=0;j+1<SIZE;++j) if(c[j+1]-c[j]==n) ... goto skip;
AllInOneBucket(c, n, SIZE) ==
    \E j \in 0 .. SIZE - 2 : At(c, j + 1) - At(c, j) = n

\* for(i=0;i<n;++i) dst[c[k]++]=src[i];
ScatterLoop(M, c, src, dst, n, OFFSET, MASK) ==
    LET Body(st, i) ==
            LET k == Digit(Rd(st.M, src, i), OFFSET, MASK)
            IN [M |-> Wr(st.M, dst, At(st.c, k), Rd(st.M, src, i)),
                c |-> Inc(st.c, k)]
    IN For(Body, [M |-> M, c |-> c], 0, n)

\* for(i=0;i<n;++i) to[i]=from[i];
CopyAll(M, to, from, n) ==
    LET Body(st, i) == Wr(st, to, i, Rd(st, from, i))
    IN For(Body, M, 0, n)

\* Ghost: the n elements at src all have the same digit (n > 0).
SameDigit(M, src, n, OFFSET, MASK) ==
    /\ n > 0
    /\ \A i \in 0 .. n - 1 :
          Digit(Rd(M, src, i), OFFSET, MASK) = Digit(Rd(M, src, 0), OFFSET, MASK)

\* Ghost: the record of one counting pass, appended to the log.  copies is
\* the number of element writes of the pass's scatter step.
LogPass(Mbefore, Mafter, eng, src, n, OFFSET, MASK, skipped) ==
    [Mafter EXCEPT !.log = Append(@,
        [eng |-> eng, n |-> n, off |-> OFFSET,
         same |-> SameDigit(Mbefore, src, n, OFFSET, MASK),
         digit |-> IF n > 0 THEN Digit(Rd(Mbefore, src, 0), OFFSET, MASK) ELSE 0,
         skipped |-> skipped,
         copies |-> (Mafter.wr.src + Mafter.wr.tmp)
                    - (Mbefore.wr.src + Mbefore.wr.tmp)])]

\* ------------------------------------------------------ radix_sort_msd_impl

RECURSIVE radix_sort_msd_impl(_, _, _, _, _, _, _, _)
RECURSIVE MsdBucket(_, _, _, _, _, _, _, _, _, _)

\* The body of for(j=0,b=0;j<SIZE;b=c[j++]): switch(c[j]-b) ...
MsdBucket(M, src, dst, out, b, sz, destination, OFFSET, BITS, THRESHOLD) ==
    CASE sz = 0 -> M
      [] sz = 1 -> Wr(M, out, b, Rd(M, dst, b))
      [] sz = 2 ->
           LET flip == IF KeyLt(get_key(Rd(M, dst, b + 1)), get_key(Rd(M, dst, b)))
                       THEN 1 ELSE 0
               L == Rd(M, dst, b + flip)
               H == Rd(M, dst, b + LNot(flip))
           IN Wr(Wr(M, out, b, L), out, b + 1, H)
      [] OTHER ->
           radix_sort_msd_impl(M, PAdd(dst, b), PAdd(src, b), sz,
                               Xor1(destination), OFFSET, BITS, THRESHOLD).M

\* for(j=0,b=0;j<SIZE;b=c[j++]) switch(c[j]-b): b is c[j-1] (0 for j=0), and
\* `case 0: break' does nothing, so the loop is run over the j with c[j]#b,
\* in increasing order.
MsdBuckets(M, c, src, dst, out, SIZE, destination, OFFSET, BITS, THRESHOLD) ==
    LET B(j) == IF j = 0 THEN 0 ELSE At(c, j - 1)
        js == Ascending({j \in 0 .. SIZE - 1 : At(c, j) # B(j)})
        Body(st, x) ==
            MsdBucket(st, src, dst, out, B(js[x]), At(c, js[x]) - B(js[x]),
                      destination, OFFSET, BITS, THRESHOLD)
    IN For(Body, M, 1, Len(js) + 1)

\* SkipRoles without destination^=1.
SkipRolesKeepDestination(src, dst, destination) ==
    [src |-> dst, dst |-> src, destination |-> destination]

\* T *tmp=src;src=dst;dst=tmp; destination^=1;
SkipRoles(src, dst, destination) ==
    [src |-> dst, dst |-> src, destination |-> Xor1(destination)]

radix_sort_msd_impl(M, src, dst, n, destination, WIDTH, BITS, THRESHOLD) ==
    LET LOG2SIZE == Min(BITS, WIDTH)
        SIZE == Pow2(LOG2SIZE)
        OFFSET == WIDTH - LOG2SIZE
        MASK == SIZE - 1
    IN IF ~Evaluated(M) \/ n < THRESHOLD
       THEN [M |-> fallback_sort(M, src, dst, n, destination),
             out |-> IF destination = 0 THEN src ELSE dst]
       ELSE LET c0 == CumulativeDistribution(M, src, n, OFFSET, SIZE)
                skip == AllInOneBucket(c0, n, SIZE)
                r == IF skip THEN SkipRoles(src, dst, destination)
                     ELSE [src |-> src, dst |-> dst, destination |-> destination]
                src1 == r.src
                dst1 == r.dst
                dest1 == r.destination
                sc == IF skip THEN [M |-> M, c |-> c0]
                      ELSE ScatterLoop(M, c0, src, dst, n, OFFSET, MASK)
                M1 == LogPass(M, sc.M, "msd", src, n, OFFSET, MASK, skip)
                out == IF dest1 = 0 THEN src1 ELSE dst1
                M2 == IF OFFSET > 0
                      THEN MsdBuckets(M1, sc.c, src1, dst1, out, SIZE,
                                      dest1, OFFSET, BITS, THRESHOLD)
                      ELSE M1
                M3 == IF OFFSET = 0 /\ dest1 = 0
                      THEN CopyAll(M2, src1, dst1, n)
                      ELSE M2
            IN [M |-> M3, out |-> out]

\* ------------------------------------------------------ radix_sort_lsd_impl

RECURSIVE radix_sort_lsd_impl(_, _, _, _, _, _)
radix_sort_lsd_impl(M, src, dst, n, WIDTH, BITS) ==
    LET OFFSET == KeyBits - WIDTH
        SIZE == Pow2(Min(BITS, WIDTH))
        MASK == SIZE - 1
        c0 == CumulativeDistribution(M, src, n, OFFSET, SIZE)
        skip == AllInOneBucket(c0, n, SIZE)
        src1 == IF skip THEN dst ELSE src
        dst1 == IF skip THEN src ELSE dst
        sc == IF skip THEN [M |-> M, c |-> c0]
              ELSE ScatterLoop(M, c0, src, dst, n, OFFSET, MASK)
        M1 == LogPass(M, sc.M, "lsd", src, n, OFFSET, MASK, skip)
    IN IF Evaluated(M1) /\ BITS < WIDTH
       THEN radix_sort_lsd_impl(M1, dst1, src1, n, WIDTH - BITS, BITS)
       ELSE [M |-> M1, out |-> dst1]

\* ---------------------------------------------- radix_sort_msd_inplace_impl

\* for(j=0;j+1<SIZE;++j) d[j]=c[j+1];  d[SIZE-1]=n;   (d = c+SIZE)
SetEnds(c, SIZE, n) ==
    LET Body(st, j) == Put(st, SIZE + j, At(st, j + 1))
    IN Put(For(Body, c, 0, SIZE - 1), SIZE + SIZE - 1, n)

\* ChaseStep without src[k]=t.
ChaseStepNoWriteBack(M, c, src, k, h, OFFSET, MASK) ==
    LET t == Rd(M, src, At(c, h))
        M1 == Wr(M, src, At(c, h), Rd(M, src, k))
    IN [M |-> M1, c |-> Inc(c, h), h |-> Digit(t, OFFSET, MASK)]

\* ChaseStep with h taken from the element that left k, not from t.
ChaseStepStaleDigit(M, c, src, k, h, OFFSET, MASK) ==
    LET t == Rd(M, src, At(c, h))
        M1 == Wr(M, src, At(c, h), Rd(M, src, k))
        M2 == Wr(M1, src, k, t)
    IN [M |-> M2, c |-> Inc(c, h), h |-> Digit(Rd(M, src, k), OFFSET, MASK)]

\* One iteration of while(j!=h): the element at k goes to the next free slot
\* of bucket h, and that slot's occupant comes to k.
ChaseStep(M, c, src, k, h, OFFSET, MASK) ==
    LET t == Rd(M, src, At(c, h))
        M1 == Wr(M, src, At(c, h), Rd(M, src, k))
        M2 == Wr(M1, src, k, t)
    IN [M |-> M2, c |-> Inc(c, h), h |-> Digit(t, OFFSET, MASK)]

\* while(j!=h) {...}: every iteration fills one slot of the n, so the loop
\* ends within n iterations.
CycleChase(M, c, src, n, j, k, h, OFFSET, MASK) ==
    LET Cond(st) == j # st.h
        Body(st) == ChaseStep(st.M, st.c, src, k, st.h, OFFSET, MASK)
    IN While(Cond, Body, [M |-> M, c |-> c, h |-> h], n)

\* The body of for(;c[j]!=d[j];++c[j]).
CycleSlot(M, c, src, n, j, OFFSET, MASK) ==
    LET k == At(c, j)
        h == Digit(Rd(M, src, k), OFFSET, MASK)
        s == CycleChase(M, c, src, n, j, k, h, OFFSET, MASK)
    IN [M |-> s.M, c |-> Inc(s.c, j)]

\* for(;c[j]!=d[j];++c[j]) {...}: only this loop's ++c[j] moves c[j] (a chase
\* out of bucket j increments c[h], h#j), so it runs d[j]-c[j] times.
CycleBucket(M, c, src, n, j, SIZE, OFFSET, MASK) ==
    LET Body(st, x) ==
            IF At(st.c, j) # At(st.c, SIZE + j)
            THEN CycleSlot(st.M, st.c, src, n, j, OFFSET, MASK)
            ELSE st
    IN For(Body, [M |-> M, c |-> c], At(c, j), At(c, SIZE + j))

\* for(j=0;j<SIZE;++j) for(;c[j]!=d[j];++c[j]) ...: a bucket that is empty
\* (c[j]=d[j] at the start) stays so, since a chase only advances the cursor
\* of the bucket of an element; the loop is run over the other j, in
\* increasing order.
CycleScatter(M, c, src, n, SIZE, OFFSET, MASK) ==
    LET js == Ascending({j \in 0 .. SIZE - 1 : At(c, j) # At(c, SIZE + j)})
        Body(st, x) ==
            CycleBucket(st.M, st.c, src, n, js[x], SIZE, OFFSET, MASK)
    IN For(Body, [M |-> M, c |-> c], 1, Len(js) + 1)

\* T tmp[THRESHOLD]: a fresh, uninitialised on-stack temporary.
StackTmp(M, THRESHOLD) ==
    [M EXCEPT !.mem.stk = Fill(M.junk, THRESHOLD)]

RECURSIVE radix_sort_msd_inplace_impl(_, _, _, _, _, _)
RECURSIVE InplaceBucket(_, _, _, _, _, _, _)

\* InplaceBucket with `case 2' doing nothing, like `case 1'.
InplaceBucketNoSwap(M, src, b, sz, OFFSET, BITS, THRESHOLD) ==
    CASE sz = 0 \/ sz = 1 \/ sz = 2 -> M
      [] OTHER ->
           radix_sort_msd_inplace_impl(M, PAdd(src, b), sz, OFFSET, BITS,
                                       THRESHOLD)

\* The body of for(j=0,b=0;j<SIZE;b=d[j++]): switch(d[j]-b) ...
InplaceBucket(M, src, b, sz, OFFSET, BITS, THRESHOLD) ==
    CASE sz = 0 \/ sz = 1 -> M
      [] sz = 2 ->
           IF KeyLt(get_key(Rd(M, src, b + 1)), get_key(Rd(M, src, b)))
           THEN LET t == Rd(M, src, b + 1)
                IN Wr(Wr(M, src, b + 1, Rd(M, src, b)), src, b, t)
           ELSE M
      [] OTHER ->
           radix_sort_msd_inplace_impl(M, PAdd(src, b), sz, OFFSET, BITS,
                                       THRESHOLD)

\* for(j=0,b=0;j<SIZE;b=d[j++]) switch(d[j]-b): b is d[j-1] (0 for j=0), and
\* `case 0: break' does nothing, so the loop is run over the j with d[j]#b,
\* in increasing order.
InplaceBuckets(M, c, src, SIZE, OFFSET, BITS, THRESHOLD) ==
    LET B(j) == IF j = 0 THEN 0 ELSE At(c, SIZE + j - 1)
        js == Ascending({j \in 0 .. SIZE - 1 : At(c, SIZE + j) # B(j)})
        Body(st, x) ==
            InplaceBucket(st, src, B(js[x]), At(c, SIZE + js[x]) - B(js[x]),
                          OFFSET, BITS, THRESHOLD)
    IN For(Body, M, 1, Len(js) + 1)

radix_sort_msd_inplace_impl(M, src, n, WIDTH, BITS, THRESHOLD) ==
    LET LOG2SIZE == Min(BITS, WIDTH)
        SIZE == Pow2(LOG2SIZE)
        OFFSET == WIDTH - LOG2SIZE
        MASK == SIZE - 1
    IN IF ~Evaluated(M) \/ n < THRESHOLD
       THEN fallback_sort(StackTmp(M, THRESHOLD), src, Ptr("stk", 0), n, 0)
       ELSE LET c0 == SetEnds(CumulativeDistribution(M, src, n, OFFSET, SIZE),
                              SIZE, n)
                skip == AllInOneBucket(c0, n, SIZE)
                sc == IF skip THEN [M |-> M, c |-> c0]
                      ELSE CycleScatter(M, c0, src, n, SIZE, OFFSET, MASK)
                M1 == LogPass(M, sc.M, "inplace", src, n, OFFSET, MASK, skip)
            IN IF OFFSET > 0
               THEN InplaceBuckets(M1, sc.c, src, SIZE, OFFSET, BITS,
                                   THRESHOLD)
               ELSE M1

\* ------------------------------------------- radix_sort_msd, radix_sort_lsd

radix_sort_msd(M, src, tmp, n, destination, BITS, THRESHOLD) ==
    radix_sort_msd_impl(M, src, tmp, n, IF destination # 1 THEN 0 ELSE 1,
                        KeyBits, BITS, THRESHOLD)

\* radix_sort_lsd without the two final copies.
radix_sort_lsd_nocopy(M, src, tmp, n, destination, BITS) ==
    radix_sort_lsd_impl(M, src, tmp, n, KeyBits, BITS)

\* radix_sort_lsd without the tests ret!=src and ret!=tmp.
radix_sort_lsd_alwayscopy(M, src, tmp, n, destination, BITS) ==
    LET r == radix_sort_lsd_impl(M, src, tmp, n, KeyBits, BITS)
    IN IF destination = 0
       THEN [M |-> CopyAll(r.M, src, tmp, n), out |-> src]
       ELSE IF destination = 1
       THEN [M |-> CopyAll(r.M, tmp, src, n), out |-> tmp]
       ELSE r

radix_sort_lsd(M, src, tmp, n, destination, BITS) ==
    LET r == radix_sort_lsd_impl(M, src, tmp, n, KeyBits, BITS)
    IN IF destination = 0 /\ r.out # src
       THEN [M |-> CopyAll(r.M, src, tmp, n), out |-> src]
       ELSE IF destination = 1 /\ r.out # tmp
       THEN [M |-> CopyAll(r.M, tmp, src, n), out |-> tmp]
       ELSE r

\* -------------------------------------------------------- exported functions

\* The `experimentally chosen ranges' of n that take 11-bit digits.
WideDigits(n) == (n > 4000 /\ n < 60000) \/ (n > 2000000 /\ n < 9000000)

\* Dispatch without the test sizeof(T)*CHAR_BIT>64.
DispatchNoSizeTest(n, mode, keyBits, sizeofT) ==
    IF mode # 0 /\ ( \/ mode = 1
                     \/ n < 1500
                     \/ keyBits > 40
                     \/ n > 10000000 \div sizeofT )
    THEN IF WideDigits(n) THEN [eng |-> "msd", bits |-> 11, threshold |-> 256]
         ELSE [eng |-> "msd", bits |-> 8, threshold |-> 128]
    ELSE [eng |-> "lsd", bits |-> 8, threshold |-> 0]

\* The engine, digit width and fallback threshold radix_sort_stable picks.
Dispatch(n, mode, keyBits, sizeofT) ==
    IF mode # 0 /\ ( \/ mode = 1
                     \/ n < 1500
                     \/ keyBits > 40
                     \/ (sizeofT * 8 > 64 /\ n > 10000000 \div sizeofT) )
    THEN IF WideDigits(n) THEN [eng |-> "msd", bits |-> 11, threshold |-> 256]
         ELSE [eng |-> "msd", bits |-> 8, threshold |-> 128]
    ELSE [eng |-> "lsd", bits |-> 8, threshold |-> 0]

radix_sort_stable(M, src, tmp, n, destination, mode) ==
    LET e == Dispatch(n, mode, KeyBits, SizeofT)
    IN IF e.eng = "msd"
       THEN radix_sort_msd(M, src, tmp, n, destination, e.bits, e.threshold)
       ELSE radix_sort_lsd(M, src, tmp, n, destination, e.bits)

\* The digit width and fallback threshold radix_sort_inplace picks.
InplaceDispatch(n) ==
    IF WideDigits(n) THEN [eng |-> "inplace", bits |-> 11, threshold |-> 256]
    ELSE [eng |-> "inplace", bits |-> 8, threshold |-> 128]

radix_sort_inplace(M, src, n) ==
    LET e == InplaceDispatch(n)
    IN radix_sort_msd_inplace_impl(M, src, n, KeyBits, e.bits, e.threshold)

\* ------------------------------------------------------------------- inputs

\* 0x00000000, 0xFFFFFFFF, 0x00000001, 0xFF000001, 0x0000FF00, 0x00FF00FF,
\* 0x01000000
KeyList == << <<0, 0>>, <<65535, 65535>>, <<0, 1>>, <<65280, 1>>,
             <<0, 65280>>, <<255, 255>>, <<256, 0>> >>
Keys == {KeyList[x] : x \in 1 .. Min(NumKeys, Len(KeyList))}
\* The all-zero and the all-ones key.
FillKeys == {KeyList[1], KeyList[2]}

\* The sizes around the insertion/merge switch of fallback_sort (n<=18) and
\* around the fallback switch of the MSD engines (n<128), and the smallest.
Sizes == {0, 1, 2, 3, 17, 18, 19, 127, 128, 129}

\* The keys of an input of length n: a pattern of one or two keys repeated,
\* or the all-zero or the all-ones key repeated with two other keys at the end.
Periodic(pat, n) == [i \in 1 .. n |-> pat[((i - 1) % Len(pat)) + 1]]
WithTail(f, t, n) == [i \in 1 .. n |-> IF i > n - 2 THEN t[i - (n - 2)] ELSE f]
KeySeqs(n) ==
    {Periodic(pat, n) : pat \in [1 .. 1 -> Keys] \cup [1 .. 2 -> Keys]}
    \cup {WithTail(f, t, n) : f \in FillKeys, t \in [1 .. 2 -> Keys]}

\* The elements with keys ks; element i carries index i.
MakeInput(ks) ==
    LET Body(st, i) == Append(st, [key |-> ks[i], id |-> i])
    IN For(Body, << >>, 1, Len(ks) + 1)

Modes == {0, 1, -1}
Destinations == {0, 1, -1}

\* What tmp holds before the call and an uninitialised on-stack array holds:
\* an element that is none of the input's (key 0xAAAAAAAA, index 0).
Junk == [key |-> <<43690, 43690>>, id |-> 0]

\* -------------------------------------------------------------------- state

\* input   the caller's array before the call
\* src,tmp the caller's two buffers
\* n       the argument n
\* inst    the template instantiation: bits of the key type and sizeof(T)
\* pc      "ready" before the call, then the entry point that has returned
\* args    the arguments destination and mode of radix_sort_stable
\* ret     the buffer the returned pointer points to
\* sel     the engine, digit width and fallback threshold the call selected
\* wr      the number of element writes to src and to tmp
\* passes  the log of the counting passes
\* cyc     the locals of the scatter of radix_sort_msd_inplace_impl
\* stack   the calls of the MSD engines that have not returned
VARIABLES input, src, tmp, n, inst, pc, args, ret, sel, wr, passes, cyc,
          stack

vars == <<input, src, tmp, n, inst, pc, args, ret, sel, wr, passes, cyc,
          stack>>

\* The memory that holds s in src and t in tmp.
MemoryOf(s, t) == [mem |-> [src |-> s, tmp |-> t, stk |-> << >>],
                   wr |-> [src |-> 0, tmp |-> 0, stk |-> 0],
                   log |-> << >>,
                   junk |-> Junk]

Memory == MemoryOf(src, tmp)

NoCycle == [at |-> "idle"]

Init ==
    /\ \E m \in Sizes : \E ks \in KeySeqs(m) : input = MakeInput(ks)
    /\ src = input
    /\ tmp = Fill(Junk, Len(input))
    /\ n = Len(input)
    /\ inst = [keyBits |-> KeyBits, sizeofT |-> SizeofT]
    /\ pc = "ready"
    /\ args = [destination |-> 0, mode |-> 0]
    /\ ret = "none"
    /\ sel = [eng |-> "none", bits |-> 0, threshold |-> 0]
    /\ wr = [src |-> 0, tmp |-> 0]
    /\ passes = << >>
    /\ stack = << >>
    /\ cyc = NoCycle

CallStable(destination, mode) ==
    /\ pc = "ready"
    /\ \E r \in {radix_sort_stable(Memory, Ptr("src", 0), Ptr("tmp", 0), n,
                                     destination, mode)} :
          /\ src' = r.M.mem.src
          /\ tmp' = r.M.mem.tmp
          /\ ret' = IF r.out.off = 0 THEN r.out.buf ELSE "inside"
          /\ wr' = [src |-> r.M.wr.src, tmp |-> r.M.wr.tmp]
          /\ passes' = r.M.log
    /\ pc' = "stable"
    /\ args' = [destination |-> destination, mode |-> mode]
    /\ sel' = Dispatch(n, mode, inst.keyBits, inst.sizeofT)
    /\ UNCHANGED <<input, n, inst, cyc, stack>>

CallInplace ==
    /\ pc = "ready"
    /\ \E M \in {radix_sort_inplace(Memory, Ptr("src", 0), n)} :
          /\ src' = M.mem.src
          /\ tmp' = M.mem.tmp
          /\ wr' = [src |-> M.wr.src, tmp |-> M.wr.tmp]
          /\ passes' = M.log
    /\ pc' = "inplace"
    /\ ret' = "none"
    /\ sel' = InplaceDispatch(n)
    /\ UNCHANGED <<input, n, inst, args, cyc, stack>>

Next ==
    \/ \E destination \in Destinations, mode \in Modes :
          CallStable(destination, mode)
    \/ CallInplace

Spec == Init /\ [][Next]_vars

\* ------------------------------------------ the dispatch of radix_sort_stable

\* The heuristic of radix_sort_stable alone, at sizes whose arrays cannot be
\* enumerated: n is the argument, the buffers are left out.

\* The sizes around the cutoffs 1500, 4000, 60000, 2000000, 9000000 and
\* 10000000/sizeof(T), and 2500000.
DispatchSizes ==
    {0, 1499, 1500, 4000, 4001, 59999, 60000, 625000, 625001, 1250000,
     1250001, 2000000, 2000001, 2500000, 2500001, 8999999, 9000000}

\* <uint32_t,GetKey> of the exported radix_sort, <KeyValue,GetKey> of the
\* header, and instantiations with 128-bit elements and 64-bit keys.
Instantiations ==
    {[keyBits |-> 32, sizeofT |-> 4], [keyBits |-> 32, sizeofT |-> 8],
     [keyBits |-> 32, sizeofT |-> 16], [keyBits |-> 64, sizeofT |-> 8],
     [keyBits |-> 64, sizeofT |-> 16]}

DispatchModes == {0, 1, -1, 2}

DispatchInit ==
    /\ n \in DispatchSizes
    /\ inst \in Instantiations
    /\ input = << >>
    /\ src = << >>
    /\ tmp = << >>
    /\ pc = "ready"
    /\ args = [destination |-> 0, mode |-> 0]
    /\ ret = "none"
    /\ sel = [eng |-> "none", bits |-> 0, threshold |-> 0]
    /\ wr = [src |-> 0, tmp |-> 0]
    /\ passes = << >>
    /\ stack = << >>
    /\ cyc = NoCycle

\* radix_sort_stable up to its call of radix_sort_msd or radix_sort_lsd.
CallDispatch(destination, mode) ==
    /\ pc = "ready"
    /\ sel' = Dispatch(n, mode, inst.keyBits, inst.sizeofT)
    /\ pc' = "dispatched"
    /\ args' = [destination |-> destination, mode |-> mode]
    /\ UNCHANGED <<input, src, tmp, n, inst, ret, wr, passes, cyc, stack>>

DispatchNext ==
    \E destination \in Destinations, mode \in DispatchModes :
        CallDispatch(destination, mode)

SpecDispatch == DispatchInit /\ [][DispatchNext]_vars

\* ---------------------------- the scatter of radix_sort_msd_inplace_impl

\* The scatter loop of radix_sort_msd_inplace_impl<T,WIDTH,8,128,Traits>, one
\* loop test or loop body a step.  cyc.at is "bucket" at the test of
\* for(;c[j]!=d[j];++c[j]), "slot" at the test of while(j!=h), "done" after
\* the loop over j; before them, "count" at the entry of the level and "skip"
\* when the test for one bucket jumped over the scatter.  cyc.c is the array c (d = c+SIZE), cyc.start the bucket
\* starts (c[0..SIZE-1] before the scatter).

\* The locals of the level WIDTH before its counting pass: the constants are
\* set, c and the loop variables are not yet.
CycleEntry(WIDTH, BITS) ==
    LET LOG2SIZE == Min(BITS, WIDTH)
        SIZE == Pow2(LOG2SIZE)
    IN [at |-> "count", c |-> << >>, j |-> 0, k |-> 0, h |-> 0,
        start |-> << >>,
        SIZE |-> SIZE, OFFSET |-> WIDTH - LOG2SIZE, MASK |-> SIZE - 1]

\* radix_sort_inplace reaches the level WIDTH on all of s: s has at least
\* THRESHOLD elements, which agree on every digit above WIDTH (each level
\* above left them in one bucket and went on with them all).
ReachesLevel(s, WIDTH) ==
    /\ Len(s) >= InplaceDispatch(Len(s)).threshold
    /\ \A W \in {KeyBits, KeyBits - 8, KeyBits - 16, KeyBits - 24} :
          W > WIDTH =>
              SameDigit(MemoryOf(s, << >>), Ptr("src", 0), Len(s), W - 8, 255)

CycleInit ==
    /\ \E m \in {128, 129} : \E ks \in KeySeqs(m) : \E s \in {MakeInput(ks)} :
       \E WIDTH \in {KeyBits, KeyBits - 8, KeyBits - 16, KeyBits - 24} :
          /\ ReachesLevel(s, WIDTH)
          /\ input = s
          /\ cyc = CycleEntry(WIDTH, InplaceDispatch(m).bits)
    /\ src = input
    /\ tmp = << >>
    /\ n = Len(input)
    /\ inst = [keyBits |-> KeyBits, sizeofT |-> SizeofT]
    /\ pc = "scatter"
    /\ args = [destination |-> 0, mode |-> 0]
    /\ ret = "none"
    /\ sel = InplaceDispatch(Len(input))
    /\ wr = [src |-> 0, tmp |-> 0]
    /\ passes = << >>
    /\ stack = << >>

\* The histogram, the prefix sum, d[j]=c[j+1], d[SIZE-1]=n and the test for
\* one bucket: on `goto skip' the scatter is not run ("skip"), else it starts
\* at j=0.
CountLevel ==
    /\ pc = "scatter"
    /\ cyc.at = "count"
    /\ \E c0 \in {SetEnds(CumulativeDistribution(Memory, Ptr("src", 0), n,
                                                 cyc.OFFSET, cyc.SIZE),
                          cyc.SIZE, n)} :
          cyc' = [cyc EXCEPT !.at = IF AllInOneBucket(c0, n, cyc.SIZE)
                                    THEN "skip" ELSE "bucket",
                             !.c = c0,
                             !.start = SubSeq(c0, 1, cyc.SIZE)]
    /\ UNCHANGED <<input, src, tmp, n, inst, pc, args, ret, sel, wr, passes, stack>>

\* for(;c[j]!=d[j];...) fails: ++j, and the loop over j ends at j=SIZE.
NextBucket ==
    /\ pc = "scatter"
    /\ cyc.at = "bucket"
    /\ At(cyc.c, cyc.j) = At(cyc.c, cyc.SIZE + cyc.j)
    /\ cyc' = [cyc EXCEPT !.j = @ + 1,
                          !.at = IF cyc.j + 1 < cyc.SIZE THEN "bucket" ELSE "done"]
    /\ UNCHANGED <<input, src, tmp, n, inst, pc, args, ret, sel, wr, passes, stack>>

\* size_t k=c[j],h=size_t(Traits::get_key(src[k])>>OFFSET)&MASK;
BeginSlot ==
    /\ pc = "scatter"
    /\ cyc.at = "bucket"
    /\ At(cyc.c, cyc.j) # At(cyc.c, cyc.SIZE + cyc.j)
    /\ cyc' = [cyc EXCEPT !.at = "slot",
                          !.k = At(cyc.c, cyc.j),
                          !.h = Digit(Rd(Memory, Ptr("src", 0), At(cyc.c, cyc.j)),
                                      cyc.OFFSET, cyc.MASK)]
    /\ UNCHANGED <<input, src, tmp, n, inst, pc, args, ret, sel, wr, passes, stack>>

\* One iteration of while(j!=h).
Chase ==
    /\ pc = "scatter"
    /\ cyc.at = "slot"
    /\ cyc.j # cyc.h
    /\ \E s \in {ChaseStep(Memory, cyc.c, Ptr("src", 0), cyc.k, cyc.h,
                           cyc.OFFSET, cyc.MASK)} :
          /\ src' = s.M.mem.src
          /\ wr' = [src |-> wr.src + s.M.wr.src, tmp |-> wr.tmp]
          /\ cyc' = [cyc EXCEPT !.c = s.c, !.h = s.h]
    /\ UNCHANGED <<input, tmp, n, inst, pc, args, ret, sel, passes, stack>>

\* while(j!=h) fails: ++c[j].
EndSlot ==
    /\ pc = "scatter"
    /\ cyc.at = "slot"
    /\ cyc.j = cyc.h
    /\ cyc' = [cyc EXCEPT !.at = "bucket", !.c = Inc(@, cyc.j)]
    /\ UNCHANGED <<input, src, tmp, n, inst, pc, args, ret, sel, wr, passes, stack>>

CycleNext == CountLevel \/ NextBucket \/ BeginSlot \/ Chase \/ EndSlot

SpecCycle == CycleInit /\ [][CycleNext]_vars

\* ------------------------------------- the recursion of the two MSD engines

\* radix_sort_msd_impl and radix_sort_msd_inplace_impl, one call, counting
\* pass, bucket of the loop over j, or return a step.  stack holds one frame
\* for every call that has not returned, the innermost last:
\*   eng          "msd" or "inplace"
\*   WIDTH, BITS, THRESHOLD   the template arguments of the instantiation
\*   level        the nesting depth of the call (1 for the call by the wrapper)
\*   src, dst, n, destination the arguments (in place: dst=src, destination=0)
\*   at           "entry" at the test n<THRESHOLD, "buckets" in the loop
\*                for(j=0,b=0;j<SIZE;...) after `skip:'
\*   c, j         the array c and the loop variable j
\*   skip         the counting pass of the call took `goto skip'

\* The digit width and fallback threshold of the instantiations the wrappers
\* make.
Engines == {[bits |-> 8, threshold |-> 128], [bits |-> 11, threshold |-> 256]}

\* ceil(KeyBits/BITS)
MaxDepth(BITS) == (KeyBits + BITS - 1) \div BITS

\* The WIDTH of the instantiations of one engine: KeyBits, and OFFSET of each.
Levels(BITS) == {KeyBits - k * BITS : k \in 0 .. MaxDepth(BITS) - 1}

\* The sizes around the fallback switch n<THRESHOLD, and a small one.
RecSizes(e) == {3, e.threshold - 1, e.threshold, e.threshold + 1}

\* WIDTH-LOG2SIZE
FrameOffset(f) == f.WIDTH - Min(f.BITS, f.WIDTH)
\* 1u<<LOG2SIZE
FrameSize(f) == Pow2(Min(f.BITS, f.WIDTH))

\* The template argument WIDTH of the recursive call, without the test
\* OFFSET>0: the caller's WIDTH again.
NextWidthSame(OFFSET, WIDTH) == WIDTH

\* (OFFSET>0?OFFSET:WIDTH), the template argument WIDTH of the recursive call.
NextWidth(OFFSET, WIDTH) == IF OFFSET > 0 THEN OFFSET ELSE WIDTH

\* The end of bucket j in the loop after `skip:': c[j], in place d[j].
BucketEnd(f, j) ==
    IF f.eng = "msd" THEN At(f.c, j) ELSE At(f.c, FrameSize(f) + j)

\* b at bucket j: b=0 at j=0, then b=c[j-1] (in place d[j-1]).
BucketStart(f, j) == IF j = 0 THEN 0 ELSE BucketEnd(f, j - 1)

\* `case 0: break' does nothing: the first j at or after j0 whose switch value
\* is not 0, SIZE when there is none.
NextNonEmpty(f, j0) ==
    LET js == {j \in j0 .. FrameSize(f) - 1 : BucketEnd(f, j) # BucketStart(f, j)}
    IN IF js = {} THEN FrameSize(f)
       ELSE CHOOSE j \in js : \A x \in js : j <= x

\* The frame of a call.
Frame(eng, WIDTH, BITS, THRESHOLD, level, s, d, m, destination) ==
    [eng |-> eng, WIDTH |-> WIDTH, BITS |-> BITS, THRESHOLD |-> THRESHOLD,
     level |-> level, src |-> s, dst |-> d, n |-> m,
     destination |-> destination, at |-> "entry", c |-> << >>, j |-> 0,
     skip |-> FALSE]

\* The innermost call returns: its frame is popped, and its caller goes on
\* with b=c[j++] (in place b=d[j++]).
Return(stk) ==
    LET rest == SubSeq(stk, 1, Len(stk) - 1)
    IN IF rest = << >> THEN rest
       ELSE [rest EXCEPT ![Len(rest)].j =
                 NextNonEmpty(rest[Len(rest)], rest[Len(rest)].j + 1)]

\* The elements of s agree on the bits above WIDTH: every level above WIDTH
\* had them in one bucket and called the next level on them all.
AgreeAbove(s, WIDTH) ==
    SameDigit(MemoryOf(s, << >>), Ptr("src", 0), Len(s), WIDTH,
              Pow2(KeyBits - WIDTH) - 1)

\* A call of the level WIDTH on all of s: the wrapper's call at WIDTH=KeyBits;
\* below, the `default:' of a switch, on more than two elements that agree
\* above WIDTH.
EntersLevel(s, WIDTH) ==
    WIDTH = KeyBits \/ (Len(s) > 2 /\ AgreeAbove(s, WIDTH))

\* The calls the wrappers make go through radix_sort_msd (destination 0 or 1,
\* from src to tmp) and radix_sort_inplace; a call of a lower level gets
\* (dst+b,src+b,...,destination^1) of its caller, so its elements are in
\* either buffer.  An engine with BITS=11 is entered with 4000<n, so only its
\* lower levels are started here.
RecInit ==
    /\ \E e \in Engines : \E WIDTH \in Levels(e.bits) : \E m \in RecSizes(e) :
       \E ks \in KeySeqs(m) : \E s \in {MakeInput(ks)} :
       \E eng \in {"msd", "inplace"} : \E from \in {"src", "tmp"} :
       \E destination \in {0, 1} :
          /\ WIDTH = KeyBits => e.bits = 8 /\ from = "src"
          /\ eng = "inplace" => from = "src" /\ destination = 0
          /\ EntersLevel(s, WIDTH)
          /\ input = s
          /\ src = IF from = "src" THEN s ELSE Fill(Junk, Len(s))
          /\ tmp = IF from = "tmp" THEN s ELSE Fill(Junk, Len(s))
          /\ sel = [eng |-> eng, bits |-> e.bits, threshold |-> e.threshold]
          /\ args = [destination |-> destination, mode |-> 1]
          /\ stack = << Frame(eng, WIDTH, e.bits, e.threshold,
                              (KeyBits - WIDTH) \div e.bits + 1,
                              Ptr(from, 0),
                              IF eng = "inplace" THEN Ptr("src", 0)
                              ELSE IF from = "src" THEN Ptr("tmp", 0)
                              ELSE Ptr("src", 0),
                              m, destination) >>
    /\ n = Len(input)
    /\ inst = [keyBits |-> KeyBits, sizeofT |-> SizeofT]
    /\ pc = "recursion"
    /\ ret = "none"
    /\ wr = [src |-> 0, tmp |-> 0]
    /\ passes = << >>
    /\ cyc = NoCycle

\* The memory M and the call stack stk after a step.
Step(M, stk) ==
    /\ src' = M.mem.src
    /\ tmp' = M.mem.tmp
    /\ wr' = [src |-> wr.src + M.wr.src, tmp |-> wr.tmp + M.wr.tmp]
    /\ stack' = stk
    /\ pc' = IF stk = << >> THEN "returned" ELSE "recursion"
    /\ UNCHANGED <<input, n, inst, args, ret, sel, passes, cyc>>

\* if(n<THRESHOLD) return fallback_sort(...);
Fallback ==
    /\ pc = "recursion"
    /\ LET f == stack[Len(stack)]
       IN /\ f.at = "entry"
          /\ f.n < f.THRESHOLD
          /\ \E M \in {IF f.eng = "msd"
                       THEN fallback_sort(Memory, f.src, f.dst, f.n,
                                          f.destination)
                       ELSE fallback_sort(StackTmp(Memory, f.THRESHOLD), f.src,
                                          Ptr("stk", 0), f.n, 0)} :
                Step(M, Return(stack))

\* The frame after the counting pass of radix_sort_msd_impl: the histogram,
\* the test for one bucket with its exchange of src and dst, the scatter.
MsdCount(M, f) ==
    LET SIZE == FrameSize(f)
        OFFSET == FrameOffset(f)
        c0 == CumulativeDistribution(M, f.src, f.n, OFFSET, SIZE)
        skip == AllInOneBucket(c0, f.n, SIZE)
        r == IF skip THEN SkipRoles(f.src, f.dst, f.destination)
             ELSE [src |-> f.src, dst |-> f.dst, destination |-> f.destination]
        sc == IF skip THEN [M |-> M, c |-> c0]
              ELSE ScatterLoop(M, c0, f.src, f.dst, f.n, OFFSET, SIZE - 1)
    IN [M |-> sc.M,
        f |-> [f EXCEPT !.src = r.src, !.dst = r.dst,
                        !.destination = r.destination,
                        !.c = sc.c, !.skip = skip, !.at = "buckets"]]

\* The frame after the counting pass of radix_sort_msd_inplace_impl.
InplaceCount(M, f) ==
    LET SIZE == FrameSize(f)
        OFFSET == FrameOffset(f)
        c0 == SetEnds(CumulativeDistribution(M, f.src, f.n, OFFSET, SIZE),
                      SIZE, f.n)
        skip == AllInOneBucket(c0, f.n, SIZE)
        sc == IF skip THEN [M |-> M, c |-> c0]
              ELSE CycleScatter(M, c0, f.src, f.n, SIZE, OFFSET, SIZE - 1)
    IN [M |-> sc.M,
        f |-> [f EXCEPT !.c = sc.c, !.skip = skip, !.at = "buckets"]]

\* n>=THRESHOLD: the counting pass up to `skip:'.  With OFFSET>0 the loop over
\* the buckets starts; with OFFSET=0 there is none, and the call returns after
\* if(OFFSET==0&&destination==0) for(...) src[i]=dst[i]; (not in place).
CountPass ==
    /\ pc = "recursion"
    /\ LET f == stack[Len(stack)]
       IN /\ f.at = "entry"
          /\ f.n >= f.THRESHOLD
          /\ \E r \in {IF f.eng = "msd" THEN MsdCount(Memory, f)
                       ELSE InplaceCount(Memory, f)} :
                IF FrameOffset(f) > 0
                THEN Step(r.M,
                          [stack EXCEPT ![Len(stack)] =
                              [r.f EXCEPT !.j = NextNonEmpty(r.f, 0)]])
                ELSE Step(IF f.eng = "msd" /\ r.f.destination = 0
                          THEN CopyAll(r.M, r.f.src, r.f.dst, f.n)
                          ELSE r.M,
                          Return(stack))

\* switch(c[j]-b): case 1 and case 2.
SmallBucket ==
    /\ pc = "recursion"
    /\ LET f == stack[Len(stack)]
           b == BucketStart(f, f.j)
           sz == BucketEnd(f, f.j) - b
       IN /\ f.at = "buckets"
          /\ f.j < FrameSize(f)
          /\ sz \in {1, 2}
          /\ \E M \in {IF f.eng = "msd"
                       THEN MsdBucket(Memory, f.src, f.dst,
                                      IF f.destination = 0 THEN f.src ELSE f.dst,
                                      b, sz, f.destination, FrameOffset(f),
                                      f.BITS, f.THRESHOLD)
                       ELSE InplaceBucket(Memory, f.src, b, sz, FrameOffset(f),
                                          f.BITS, f.THRESHOLD)} :
                Step(M, [stack EXCEPT ![Len(stack)].j = NextNonEmpty(f, f.j + 1)])

\* switch(c[j]-b): default, the recursive call
\* radix_sort_msd_impl<T,(OFFSET>0?OFFSET:WIDTH),BITS,THRESHOLD,Traits>
\*     (dst+b,src+b,c[j]-b,destination^1), in place
\* radix_sort_msd_inplace_impl<T,(OFFSET>0?OFFSET:WIDTH),BITS,THRESHOLD,Traits>
\*     (src+b,d[j]-b).
Recurse ==
    /\ pc = "recursion"
    /\ LET f == stack[Len(stack)]
           b == BucketStart(f, f.j)
           sz == BucketEnd(f, f.j) - b
       IN /\ f.at = "buckets"
          /\ f.j < FrameSize(f)
          /\ sz > 2
          /\ Step(Memory,
                  Append(stack,
                         Frame(f.eng, NextWidth(FrameOffset(f), f.WIDTH),
                               f.BITS, f.THRESHOLD, f.level + 1,
                               IF f.eng = "msd" THEN PAdd(f.dst, b)
                               ELSE PAdd(f.src, b),
                               PAdd(f.src, b), sz,
                               IF f.eng = "msd" THEN Xor1(f.destination)
                               ELSE 0)))

\* j<SIZE fails: the loop over the buckets ends and the call returns (OFFSET>0
\* in this loop, so the copy after it is not made).
ReturnLevel ==
    /\ pc = "recursion"
    /\ LET f == stack[Len(stack)]
       IN /\ f.at = "buckets"
          /\ f.j >= FrameSize(f)
          /\ Step(Memory, Return(stack))

RecNext == Fallback \/ CountPass \/ SmallBucket \/ Recurse \/ ReturnLevel

SpecRecursion == RecInit /\ [][RecNext]_vars

\* --------------------------------------------------------------- properties

\* The buffer the returned pointer points to; src for radix_sort_inplace.
Result == IF ret = "tmp" THEN tmp ELSE src

\* a<=b on two keys, as unsigned integers.
KeyLeq(a, b) == a[1] < b[1] \/ (a[1] = b[1] /\ a[2] <= b[2])

\* The keys of s are in non-decreasing order.
NonDecreasing(s) ==
    \A i \in 1 .. Len(s) - 1 : KeyLeq(s[i].key, s[i + 1].key)

\* The elements of s.  The elements of input are pairwise distinct (each
\* carries its own index), so a sequence of Len(input) elements with the same
\* set of elements holds each input element exactly once.
ElementsOf(s) == {s[i] : i \in 1 .. Len(s)}

\* The digit of e at bit offset 24.
TopDigit(e) == e.key[1] \div 256

\* The last two input elements are alone in their top-digit bucket.
LastTwoAlone ==
    /\ n >= 2
    /\ TopDigit(input[n - 1]) = TopDigit(input[n])
    /\ \A i \in 1 .. n - 2 : TopDigit(input[i]) # TopDigit(input[n])

\* C1: after radix_sort_stable returns, for every mode and destination, the
\* returned buffer holds n elements whose keys are in non-decreasing unsigned
\* order.
C1_Sorted ==
    pc = "stable" =>
        /\ ret \in {"src", "tmp"}
        /\ Len(Result) = n
        /\ NonDecreasing(Result)

\* An unsorted input of THRESHOLD elements was sorted by the MSD engine, with
\* a counting pass that scattered.
C1_Witness ==
    /\ pc = "stable"
    /\ args.mode = 1
    /\ n = 128
    /\ ~NonDecreasing(input)
    /\ \E x \in 1 .. Len(passes) : ~passes[x].skipped
    /\ NonDecreasing(Result)

\* C2: radix_sort_stable is stable: of two input elements with equal keys the
\* one at the lower input index is at the lower index of the returned buffer.
C2_Stable ==
    pc = "stable" =>
        \A i \in 1 .. n : \A j \in i + 1 .. n :
            Result[i].key = Result[j].key => Result[i].id < Result[j].id

\* The MSD engine met a bucket of two elements with equal keys, in an unsorted
\* input of at least THRESHOLD elements, and left the two in input order.
C2_Witness ==
    /\ pc = "stable"
    /\ args.mode = 1
    /\ n >= 128
    /\ LastTwoAlone
    /\ input[n - 1].key = input[n].key
    /\ ~NonDecreasing(input)
    /\ \E i \in 1 .. n - 1 : Result[i] = input[n - 1] /\ Result[i + 1] = input[n]

\* C3: for both entry points the output (the returned buffer of
\* radix_sort_stable, src after radix_sort_inplace) is a permutation of the
\* input: no element lost or duplicated.
C3_Permutation ==
    pc \in {"stable", "inplace"} =>
        /\ Len(Result) = Len(input)
        /\ ElementsOf(Result) = ElementsOf(input)

\* radix_sort_inplace moved elements of an input of at least THRESHOLD
\* elements by its cycle-following scatter.
C3_Witness ==
    /\ pc = "inplace"
    /\ n >= 128
    /\ \E x \in 1 .. Len(passes) : passes[x].copies > 0
    /\ src # input
    /\ ElementsOf(src) = ElementsOf(input)

\* The elements of s are in increasing order of (key, index): s is sorted and
\* stable.
KeyThenIndexOrder(s) ==
    \A i \in 1 .. Len(s) - 1 :
        /\ KeyLeq(s[i].key, s[i + 1].key)
        /\ s[i].key = s[i + 1].key => s[i].id < s[i + 1].id

\* C4: radix_sort_stable places the result where asked: destination 0 returns
\* src, destination 1 returns tmp, any other returns src or tmp, and the
\* returned buffer holds the sorted sequence (the input's elements in
\* increasing order of key, input order among equal keys).
C4_Placement ==
    pc = "stable" =>
        /\ args.destination = 0 => ret = "src"
        /\ args.destination = 1 => ret = "tmp"
        /\ ret \in {"src", "tmp"}
        /\ ElementsOf(Result) = ElementsOf(input)
        /\ KeyThenIndexOrder(Result)

\* The LSD engine, asked for tmp, went through a skipped and a scattering
\* pass on an unsorted input and returned tmp.
C4_Witness ==
    /\ pc = "stable"
    /\ args.mode = 0
    /\ args.destination = 1
    /\ ret = "tmp"
    /\ ~NonDecreasing(input)
    /\ \E x \in 1 .. Len(passes) : passes[x].skipped
    /\ \E x \in 1 .. Len(passes) : ~passes[x].skipped
    /\ KeyThenIndexOrder(tmp)

\* C5: after radix_sort_inplace returns, src holds the elements with keys in
\* non-decreasing unsigned order.
C5_InplaceSorted ==
    pc = "inplace" => NonDecreasing(src)

\* The in-place engine met a bucket of two elements in descending order, in
\* an input of at least THRESHOLD elements whose other elements went to the
\* fallback sort or a deeper level.
C5_Witness ==
    /\ pc = "inplace"
    /\ n >= 128
    /\ LastTwoAlone
    /\ ~KeyLeq(input[n - 1].key, input[n].key)
    /\ Len(passes) >= 1
    /\ NonDecreasing(src)

\* All input keys are the same.
OneKey == \A i \in 1 .. n : input[i].key = input[1].key

\* C6: when all input keys are identical, radix_sort_stable (any mode, any
\* destination) returns a buffer that holds the elements in input order.
C6_IdenticalKeys ==
    (pc = "stable" /\ OneKey) => Result = input

\* The out-of-place MSD engine skipped every pass of an all-zero input of at
\* least THRESHOLD elements, and returned the buffer that holds the data.
C6_Witness ==
    /\ pc = "stable"
    /\ args.mode = 1
    /\ n >= 128
    /\ OneKey
    /\ Len(passes) = 4
    /\ \A x \in 1 .. Len(passes) : passes[x].skipped
    /\ Result = input

\* C7: for both entry points, with n = 0 no element of src or tmp is written,
\* and with n = 1 src holds the input element after the call.
C7_BoundarySizes ==
    pc \in {"stable", "inplace"} =>
        /\ n = 0 => (wr.src = 0 /\ wr.tmp = 0)
        /\ n = 1 => src = input

\* radix_sort_stable wrote src and tmp on an input of one element, and src
\* holds that element.
C7_Witness ==
    /\ pc = "stable"
    /\ n = 1
    /\ wr.src > 0
    /\ wr.tmp > 0
    /\ src = input

C9_DegenerateSkipped ==
    \A x \in 1 .. Len(passes) :
        (passes[x].eng \in {"lsd", "msd"} /\ passes[x].same) =>
            (passes[x].skipped /\ passes[x].copies = 0)

\* C10: at every step of the in-place scatter, every cursor c[j] is between
\* the start and the end d[j] of its bucket, a swap targets a slot c[h]<d[h],
\* and every element in [start_j, c[j]) has digit j; when the scatter ends,
\* c[j]=d[j] for all j, the bucket ranges partition [0,n) without gap or
\* overlap, and each holds exactly the elements with its digit.
C10_CycleFollowing ==
    cyc.at \in {"bucket", "slot", "done"} =>
        LET SIZE == cyc.SIZE
            c(j) == At(cyc.c, j)
            d(j) == At(cyc.c, SIZE + j)
            start(j) == cyc.start[j + 1]
            dig(i) == Digit(src[i + 1], cyc.OFFSET, cyc.MASK)
        IN /\ \A j \in 0 .. SIZE - 1 : start(j) <= c(j) /\ c(j) <= d(j)
           /\ (cyc.at = "slot" /\ cyc.j # cyc.h) => c(cyc.h) < d(cyc.h)
           /\ \A j \in 0 .. SIZE - 1 :
                 \A i \in start(j) .. c(j) - 1 : dig(i) = j
           /\ cyc.at = "done" =>
                 /\ \A j \in 0 .. SIZE - 1 : c(j) = d(j)
                 /\ start(0) = 0
                 /\ \A j \in 0 .. SIZE - 2 : d(j) = start(j + 1)
                 /\ d(SIZE - 1) = n
                 /\ \A j \in 0 .. SIZE - 1 :
                       \A i \in start(j) .. d(j) - 1 : dig(i) = j
                 /\ ElementsOf(src) = ElementsOf(input)

\* A scatter that swapped elements has ended.
C10_Witness ==
    /\ cyc.at = "done"
    /\ wr.src > 0
    /\ src # input
    /\ \A j \in 0 .. cyc.SIZE - 1 : At(cyc.c, j) = At(cyc.c, cyc.SIZE + j)

\* Every call on the stack is at a nesting depth of at most ceil(W/B) and has
\* remaining width left; every call but the outermost was made by a caller
\* with OFFSET>0, one level deeper than it and with its WIDTH less BITS.
DepthBounded ==
    \A k \in 1 .. Len(stack) :
        LET f == stack[k]
        IN /\ f.level >= 1
           /\ f.level <= MaxDepth(f.BITS)
           /\ f.WIDTH > 0
           /\ k > 1 =>
                 /\ FrameOffset(stack[k - 1]) > 0
                 /\ f.WIDTH = stack[k - 1].WIDTH - stack[k - 1].BITS
                 /\ f.level = stack[k - 1].level + 1

\* The position of the call f: 1 at its entry, 2+j in its loop over j.
Position(f) == IF f.at = "entry" THEN 1 ELSE 2 + f.j

\* The positions of the calls on the stack by nesting depth, 0 at a depth
\* with no call.
Positions(stk) ==
    [L \in 1 .. MaxDepth(sel.bits) |->
        IF \E k \in 1 .. Len(stk) : stk[k].level = L
        THEN Position(stk[CHOOSE k \in 1 .. Len(stk) : stk[k].level = L])
        ELSE 0]

\* a comes before b in the lexicographic order, outermost depth first.
LexLess(a, b) ==
    \E L \in DOMAIN a : a[L] < b[L] /\ \A K \in 1 .. L - 1 : a[K] = b[K]

\* Every call on the stack is inside its loop bounds, and the innermost call
\* has a next step: the test n<THRESHOLD, the end of its loop over j, or a
\* bucket of at least one element.
CanStep ==
    /\ pc = "returned" <=> stack = << >>
    /\ \A k \in 1 .. Len(stack) :
          stack[k].at = "buckets" =>
              /\ stack[k].j \in 0 .. FrameSize(stack[k])
              /\ stack[k].j < FrameSize(stack[k]) =>
                    BucketEnd(stack[k], stack[k].j)
                        - BucketStart(stack[k], stack[k].j) >= 1

\* A step returns from the outermost call or moves the positions of the
\* calls forward in the lexicographic order.
Advances ==
    stack' = << >> \/ LexLess(Positions(stack), Positions(stack'))

\* C11: both MSD engines return on every input, and while they run the
\* nesting depth of their recursive calls is at most ceil(W/B): every
\* recursive call, also the one after a pass that found one bucket, has the
\* caller's WIDTH less BITS, and a caller with OFFSET=0 makes none.  That they
\* return is stated by a variant: a call that has not returned has a next
\* step, and every step moves the positions of the calls, at most ceil(W/B)
\* numbers of 0..SIZE+2, forward in the lexicographic order.
C11_BoundedRecursion ==
    /\ [](DepthBounded /\ CanStep)
    /\ [][Advances]_vars

\* The call by the wrapper has reached the depth ceil(W/B), through a call
\* made after a pass that found one bucket.
C11_Witness ==
    /\ Len(stack) >= 2
    /\ stack[1].level = 1
    /\ Len(stack) = MaxDepth(stack[1].BITS)
    /\ stack[Len(stack) - 1].skip
    /\ stack[Len(stack)].at = "entry"

====
